---- MODULE Spec2Model ----
(***************************************************************************)
(* CV Onion: the client orchestration of CvOnionPage (the form, its        *)
(* validation schema, onSubmitHandler, handleReset) and the three server   *)
(* action wrappers analyzeCvAction, analyzeJobDescriptionAction and        *)
(* matchCvToJobAction around the generative-model flows.                   *)
(*                                                                         *)
(* A JavaScript value that may be null/undefined is a sequence of length   *)
(* at most one: Null is <<>>, Some(v) is <<v>>.                            *)
(***************************************************************************)
EXTENDS Integers, Sequences, FiniteSets, TLC

VARIABLES
    isLoading,      \* useState(false)
    error,          \* useState<string | null>(null)
    cvAnalysis,     \* useState<AnalyzeCvOutput | null>(null)
    jobAnalysis,    \* useState<AnalyzeJobDescriptionOutput | null>(null)
    matchResult,    \* useState<MatchCvToJobOutput | null>(null)
    fileName,       \* useState<string | null>(null)
    formValues,     \* react-hook-form field values: jobDescription, cvFile
    formErrors,     \* formState.errors: one message per field, or none
    isSubmitted,    \* formState.isSubmitted: a handleSubmit has completed
    pc,             \* where the run of onSubmitHandler stands
    data,           \* the FormValues the running onSubmitHandler was called with
    cvDataUri,      \* onSubmitHandler's local cvDataUri
    cvTextContent,  \* onSubmitHandler's local cvTextContent
    calls,          \* the three server-action calls of the latest submission
    uncaught        \* the step just taken ended in an uncaught exception

vars == <<isLoading, error, cvAnalysis, jobAnalysis, matchResult, fileName,
          formValues, formErrors, isSubmitted, pc, data, cvDataUri,
          cvTextContent, calls, uncaught>>

uiVars == <<isLoading, error, cvAnalysis, jobAnalysis, matchResult, fileName>>
runVars == <<pc, data, cvDataUri, cvTextContent, calls>>

Null == <<>>
Some(v) == <<v>>

---------------------------------------------------------------------------
(* Bounds of the explored inputs.                                          *)

\* The longest FileList the file input is given.
MaxFiles == 2

---------------------------------------------------------------------------
(* formSchema                                                              *)

MinJobDescriptionLength == 50
MaxFileSize == 5 * 1024 * 1024

JobDescriptionTooShort == "Job description must be at least 50 characters."
CvFileRequired == "CV file is required."
CvFileTooLarge == "CV file size must be less than 5MB."
CvFileBadType == "CV must be a PDF, DOCX, DOC, or TXT file."

TextPlain == "text/plain"
ApplicationPdf == "application/pdf"
ApplicationMsword == "application/msword"
ApplicationDocx == "application/vnd.openxmlformats-officedocument.wordprocessingml.document"
ImagePng == "image/png"

AllowedTypes == {ApplicationPdf, TextPlain, ApplicationDocx, ApplicationMsword}

\* Job descriptions of 0 (the untouched textarea), 49 and 50 characters.
JD49 == "Senior backend engineer, Go and PostgreSQL, Turin"
JD50 == "Senior backend engineer, Go and PostgreSQL, remote"
JobDescriptions == {"", JD49, JD50}

\* File sizes in bytes: exactly 5 MB, and one byte more.
FileSizes == {5 * 1024 * 1024, 5 * 1024 * 1024 + 1}
FileTypes == AllowedTypes \cup {ImagePng}

\* A browser File: its name, media type and size, and what a FileReader
\* yields for it: the Base64 payload of its bytes and its bytes decoded as
\* text.  The payload and the text stand for the content of the file.
MkFile(t, s) ==
    [name |-> "cv-" \o ToString(s) \o "." \o t,
     type |-> t,
     size |-> s,
     base64 |-> "base64(" \o ToString(s) \o " bytes of " \o t \o ")",
     text |-> "text(" \o ToString(s) \o " bytes of " \o t \o ")"]

\* The types a file of more than 5 MB is given: one the schema allows and one
\* it does not.  The handler never sees a file of that size.
OversizeTypes == {ApplicationPdf, ImagePng}

Files ==
    {MkFile(t, s) : t \in FileTypes, s \in {z \in FileSizes : z <= MaxFileSize}}
    \cup {MkFile(t, s) : t \in OversizeTypes, s \in {z \in FileSizes : z > MaxFileSize}}

\* The file a FileList of more than one file is made of.
FillerFile == MkFile(TextPlain, 5 * 1024 * 1024)

RECURSIVE Filler(_)
Filler(n) == IF n = 0 THEN <<>> ELSE <<FillerFile>> \o Filler(n - 1)

\* The FileLists of the file input: empty, one file of any kind, or two to
\* MaxFiles files that would each pass alone.
FileLists ==
    {<<>>} \cup {<<f>> : f \in Files} \cup {Filler(n) : n \in 2..MaxFiles}

\* z.string().min(50, ...): the first issue of the field, if any.
jobDescriptionIssue(jobDescription) ==
    IF Len(jobDescription) >= MinJobDescriptionLength
    THEN Null
    ELSE Some(JobDescriptionTooShort)

\* The three refinements of cvFile on a FileList (always truthy).  zod runs
\* every refinement of the chain, also after an earlier one has failed.
cvFileRefine1(files) == Len(files) = 1
cvFileRefine2(files) == files[1].size <= MaxFileSize
cvFileRefine3(files) == files[1].type \in AllowedTypes

\* files[0] is undefined on an empty FileList: the second refinement reads
\* .size of undefined and throws a TypeError.
cvFileThrows(files) == Len(files) = 0

\* The first issue of cvFile, for a FileList on which no refinement throws.
cvFileIssue(files) ==
    IF ~cvFileRefine1(files) THEN Some(CvFileRequired)
    ELSE IF ~cvFileRefine2(files) THEN Some(CvFileTooLarge)
    ELSE IF ~cvFileRefine3(files) THEN Some(CvFileBadType)
    ELSE Null

NoErrors == [jobDescription |-> Null, cvFile |-> Null]

\* zodResolver(formSchema) on the form values: the parse throws (threw), or
\* gives the first message of each field that has an issue.
formSchema(values) ==
    IF cvFileThrows(values.cvFile)
    THEN [threw |-> TRUE, errors |-> NoErrors]
    ELSE [threw |-> FALSE,
          errors |-> [jobDescription |-> jobDescriptionIssue(values.jobDescription),
                      cvFile |-> cvFileIssue(values.cvFile)]]

---------------------------------------------------------------------------
(* FileReader                                                              *)

\* reader.result of readAsDataURL: 'data:<mimetype>;base64,<encoded_data>'.
readFileAsDataURL(file) == "data:" \o file.type \o ";base64," \o file.base64

\* reader.result of readAsText: the bytes of the file decoded as text.
readFileAsText(file) == file.text

\* reader.onerror = reject: the promise rejects with the reader's
\* ProgressEvent, which has no message property.
ReaderError == [message |-> Null]

---------------------------------------------------------------------------
(* The flows: what the generative-model backend can answer.                *)

AnalyzeCv == "analyzeCvAction"
AnalyzeJobDescription == "analyzeJobDescriptionAction"
MatchCvToJob == "matchCvToJobAction"
Actions == {AnalyzeCv, AnalyzeJobDescription, MatchCvToJob}

\* AnalyzeCvOutputSchema
AnalyzeCvOutputs ==
    {[skills |-> <<"Go", "PostgreSQL">>, experience |-> "8 years of backend work",
      qualifications |-> "MSc Computer Science"],
     [skills |-> <<>>, experience |-> "", qualifications |-> ""]}

\* AnalyzeJobDescriptionOutput, as the page reads it.
AnalyzeJobDescriptionOutputs ==
    {[requiredSkills |-> <<"Go", "PostgreSQL">>, requiredExperience |-> "5+ years",
      requiredQualifications |-> "BSc or equivalent"],
     [requiredSkills |-> <<>>, requiredExperience |-> "", requiredQualifications |-> ""]}

\* MatchCvToJobOutputSchema: matchScore is any number, colorCode any of the
\* three colours; the schema relates neither to the other.
MatchScores == {50, 51, 76, 101}
ColorCodes == {"green", "orange", "red"}
MatchCvToJobOutputs ==
    [matchScore : MatchScores, highlightedCv : {"<mark>Go</mark> developer"},
     colorCode : ColorCodes]

\* What a flow returns when it returns: an output of its outputSchema.  Each
\* flow is registered with its outputSchema, so a prompt without a conforming
\* output ("return output!" on null) makes the flow fail, which is one of
\* the values thrown below.
FlowOutputs(a) ==
    CASE a = AnalyzeCv -> AnalyzeCvOutputs
      [] a = AnalyzeJobDescription -> AnalyzeJobDescriptionOutputs
      [] a = MatchCvToJob -> MatchCvToJobOutputs

\* What a flow can throw: an Error with a message, an Error with the empty
\* message, an object that is no Error but has a message property, and a
\* value that is no Error and has no message (a string, undefined).
ThrownValues ==
    {[isError |-> TRUE, message |-> Some("quota exceeded")],
     [isError |-> TRUE, message |-> Some("")],
     [isError |-> FALSE, message |-> Some("backend unavailable")],
     [isError |-> FALSE, message |-> Null]}

\* How a call of a flow settles: it returns an output or throws.
Returned(v) == [ok |-> TRUE, value |-> Some(v), thrown |-> Null]
Threw(t) == [ok |-> FALSE, value |-> Null, thrown |-> Some(t)]
FlowOutcomes(a) == {Returned(v) : v \in FlowOutputs(a)} \cup {Threw(t) : t \in ThrownValues}

---------------------------------------------------------------------------
(* The server action wrappers.  Each maps the outcome of its flow to the   *)
(* outcome of the action: the value it returns, or the message of the      *)
(* Error it throws.                                                        *)

Fulfilled(v) == [ok |-> TRUE, value |-> Some(v), message |-> Null]
Rejected(m) == [ok |-> FALSE, value |-> Null, message |-> Some(m)]

analyzeCvAction(outcome) ==
    IF outcome.ok
    THEN Fulfilled(outcome.value[1])
    ELSE IF outcome.thrown[1].isError
         THEN Rejected("Failed to analyze CV: " \o outcome.thrown[1].message[1])
         ELSE Rejected("Failed to analyze CV due to an unknown error.")

analyzeJobDescriptionAction(outcome) ==
    IF outcome.ok
    THEN Fulfilled(outcome.value[1])
    ELSE IF outcome.thrown[1].isError
         THEN Rejected("Failed to analyze job description: " \o outcome.thrown[1].message[1])
         ELSE Rejected("Failed to analyze job description due to an unknown error.")

\* matchCvToJobAction with the messages of analyzeCvAction left in it.
matchCvToJobActionCopiedMessages(outcome) ==
    IF outcome.ok
    THEN Fulfilled(outcome.value[1])
    ELSE IF outcome.thrown[1].isError
         THEN Rejected("Failed to analyze CV: " \o outcome.thrown[1].message[1])
         ELSE Rejected("Failed to analyze CV due to an unknown error.")

matchCvToJobAction(outcome) ==
    IF outcome.ok
    THEN Fulfilled(outcome.value[1])
    ELSE IF outcome.thrown[1].isError
         THEN Rejected("Failed to match CV to job: " \o outcome.thrown[1].message[1])
         ELSE Rejected("Failed to match CV to job due to an unknown error.")

ActionResult(a, outcome) ==
    CASE a = AnalyzeCv -> analyzeCvAction(outcome)
      [] a = AnalyzeJobDescription -> analyzeJobDescriptionAction(outcome)
      [] a = MatchCvToJob -> matchCvToJobAction(outcome)

---------------------------------------------------------------------------
(* CvOnionPage                                                             *)

\* A server action that the latest submission has not called.
NotCalled ==
    [status |-> "notCalled", input |-> Null, flow |-> Null, value |-> Null,
     message |-> Null, invoked |-> 0, flowCalls |-> 0]

\* The form before the user has touched it: an empty textarea and the empty
\* FileList of the file input.
InitialFormValues == [jobDescription |-> "", cvFile |-> <<>>]

Init ==
    /\ isLoading = FALSE
    /\ error = Null
    /\ cvAnalysis = Null
    /\ jobAnalysis = Null
    /\ matchResult = Null
    /\ fileName = Null
    /\ formValues = InitialFormValues
    /\ formErrors = NoErrors
    /\ isSubmitted = FALSE
    /\ pc = "idle"
    /\ data = Null
    /\ cvDataUri = Null
    /\ cvTextContent = Null
    /\ calls = [a \in Actions |-> NotCalled]
    /\ uncaught = FALSE

\* The change handler of a registered field under useForm's defaults, mode
\* "onSubmit" and reValidateMode "onChange": the value is set; before a
\* handleSubmit has completed nothing is validated; after it the resolver
\* runs on the new values and the error of the changed field, and of no
\* other, follows its result.  When the resolver throws, the handler rejects
\* and formState.errors stays as it was.
OnChange(name, values) ==
    /\ formValues' = values
    /\ IF ~isSubmitted
       THEN /\ formErrors' = formErrors
            /\ uncaught' = FALSE
       ELSE LET checked == formSchema(values) IN
            IF checked.threw
            THEN /\ formErrors' = formErrors
                 /\ uncaught' = TRUE
            ELSE /\ formErrors' = [formErrors EXCEPT ![name] = checked.errors[name]]
                 /\ uncaught' = FALSE
    /\ UNCHANGED <<uiVars, runVars, isSubmitted>>

\* The user types or pastes a job description: register("jobDescription").
SetJobDescription ==
    \E jd \in JobDescriptions :
        OnChange("jobDescription", [formValues EXCEPT !.jobDescription = jd])

\* The user picks the files of the file input: register("cvFile").  The
\* callback given to useState runs once, when the page mounts, so fileName
\* does not follow the chosen file.
SetCvFile ==
    \E files \in FileLists :
        OnChange("cvFile", [formValues EXCEPT !.cvFile = files])

\* e.message || "An unexpected error occurred. Please try again."
UnexpectedError == "An unexpected error occurred. Please try again."
CaughtMessage(e) ==
    IF e.message = Null \/ e.message[1] = "" THEN UnexpectedError ELSE e.message[1]

\* The placeholder cvTextContent of a file that cannot be read as text.
TextPlaceholder == "Could not extract text content from this file type for matching. Please use a .txt file for optimal matching analysis or copy/paste CV text."

\* handleSubmit(onSubmitHandler): validate the form values; when they are
\* valid run onSubmitHandler up to its first await, the read of the data URL.
\* The submit button is disabled while isLoading.  When the resolver throws,
\* handleSubmit rejects and formState.errors stays as it was.  isSubmitted is
\* set when handleSubmit completes: at once when the values are not valid,
\* otherwise when onSubmitHandler has returned.  calls follows
\* the calls of the new run: calls of an earlier run that are still in
\* flight have no holder left and are followed no further.
HandleSubmit ==
    /\ ~isLoading
    /\ LET checked == formSchema(formValues) IN
        IF checked.threw
        THEN /\ uncaught' = TRUE
             /\ UNCHANGED <<uiVars, runVars, formValues, formErrors, isSubmitted>>
        ELSE /\ uncaught' = FALSE
             /\ formErrors' = checked.errors
             /\ IF checked.errors # NoErrors
                THEN /\ isSubmitted' = TRUE
                     /\ UNCHANGED <<uiVars, runVars, formValues>>
                ELSE /\ isLoading' = TRUE
                     /\ error' = Null
                     /\ cvAnalysis' = Null
                     /\ jobAnalysis' = Null
                     /\ matchResult' = Null
                     /\ data' = Some(formValues)
                     /\ pc' = "readDataURL"
                     /\ cvDataUri' = Null
                     /\ cvTextContent' = Null
                     /\ calls' = [a \in Actions |-> NotCalled]
                     /\ UNCHANGED <<fileName, formValues, isSubmitted>>

\* The catch without the finally block: isLoading stays as it is.
CatchWithoutFinally(e) ==
    /\ error' = Some(CaughtMessage(e))
    /\ isLoading' = isLoading
    /\ pc' = "done"
    /\ data' = Null
    /\ cvDataUri' = Null
    /\ cvTextContent' = Null

\* catch (e) { setError(e.message || ...) } finally { setIsLoading(false) }
Catch(e) ==
    /\ error' = Some(CaughtMessage(e))
    /\ isLoading' = FALSE
    /\ pc' = "done"
    /\ data' = Null
    /\ cvDataUri' = Null
    /\ cvTextContent' = Null

\* The inputs with the data URL given to the match as the content of the CV.
ActionInputDataUriAsContent(a, jobDescription, dataUri, text) ==
    CASE a = AnalyzeCv -> [cvDataUri |-> dataUri]
      [] a = AnalyzeJobDescription -> [jobDescription |-> jobDescription]
      [] a = MatchCvToJob -> [jobDescription |-> jobDescription, cvContent |-> dataUri]

\* The inputs of the three actions, as Promise.all([...]) builds them.
ActionInput(a, jobDescription, dataUri, text) ==
    CASE a = AnalyzeCv -> [cvDataUri |-> dataUri]
      [] a = AnalyzeJobDescription -> [jobDescription |-> jobDescription]
      [] a = MatchCvToJob -> [jobDescription |-> jobDescription, cvContent |-> text]

\* Promise.all([...]): each action is called once, and calls its flow.
InvokeAll(jobDescription, dataUri, text) ==
    [a \in Actions |->
        [NotCalled EXCEPT !.status = "pending",
                          !.input = Some(ActionInput(a, jobDescription, dataUri, text)),
                          !.invoked = 1,
                          !.flowCalls = 1]]

\* reader.onload of readFileAsDataURL: cvDataUri is set and the file is
\* read as text next, whatever its type.
DataUrlLoaded ==
    /\ pc = "readDataURL"
    /\ cvDataUri' = Some(readFileAsDataURL(data[1].cvFile[1]))
    /\ pc' = "readText"
    /\ uncaught' = FALSE
    /\ UNCHANGED <<uiVars, formValues, formErrors, isSubmitted, data,
                   cvTextContent, calls>>

\* reader.onerror of readFileAsDataURL: the outer catch.
DataUrlError ==
    /\ pc = "readDataURL"
    /\ Catch(ReaderError)
    /\ isSubmitted' = TRUE
    /\ uncaught' = FALSE
    /\ UNCHANGED <<cvAnalysis, jobAnalysis, matchResult, fileName, formValues,
                   formErrors, calls>>

\* The three actions are called with the text in hand.
StartActions(text) ==
    /\ cvTextContent' = Some(text)
    /\ calls' = InvokeAll(data[1].jobDescription, cvDataUri[1], text)
    /\ pc' = "awaitAll"
    /\ UNCHANGED <<uiVars, data, cvDataUri>>

\* reader.onload of readFileAsText.
TextLoaded ==
    /\ pc = "readText"
    /\ StartActions(readFileAsText(data[1].cvFile[1]))
    /\ uncaught' = FALSE
    /\ UNCHANGED <<formValues, formErrors, isSubmitted>>

\* readFileAsText awaited without the inner try: a failed read reaches the
\* outer catch whatever the type of the file.
TextErrorWithoutInnerCatch ==
    /\ pc = "readText"
    /\ Catch(ReaderError)
    /\ isSubmitted' = TRUE
    /\ UNCHANGED <<cvAnalysis, jobAnalysis, matchResult, fileName, calls>>
    /\ uncaught' = FALSE
    /\ UNCHANGED <<formValues, formErrors>>

\* reader.onerror of readFileAsText: the outer catch for a text/plain file,
\* the inner catch and the placeholder for any other type.
TextError ==
    /\ pc = "readText"
    /\ IF data[1].cvFile[1].type = TextPlain
       THEN /\ Catch(ReaderError)
            /\ isSubmitted' = TRUE
            /\ UNCHANGED <<cvAnalysis, jobAnalysis, matchResult, fileName, calls>>
       ELSE /\ StartActions(TextPlaceholder)
            /\ UNCHANGED isSubmitted
    /\ uncaught' = FALSE
    /\ UNCHANGED <<formValues, formErrors>>

\* Promise.allSettled in the place of Promise.all: it fulfils once the three
\* calls have settled, whatever became of them.
PromiseAllSettled(c) ==
    IF \A a \in Actions : c[a].status \in {"fulfilled", "rejected"} THEN "fulfilled"
    ELSE "pending"

\* Promise.any in the place of Promise.all: it fulfils with the first call
\* that fulfils.
PromiseAny(c) ==
    IF \E a \in Actions : c[a].status = "fulfilled" THEN "fulfilled"
    ELSE IF \A a \in Actions : c[a].status = "rejected" THEN "rejected"
    ELSE "pending"

\* How Promise.all of the three calls stands: it rejects as soon as one call
\* has rejected, and fulfils once all three have fulfilled.
PromiseAll(c) ==
    IF \E a \in Actions : c[a].status = "rejected" THEN "rejected"
    ELSE IF \A a \in Actions : c[a].status = "fulfilled" THEN "fulfilled"
    ELSE "pending"

\* The array of Promise.all with the two analyses in each other's place.
PromiseAllValuesSwapped(c) ==
    <<c[AnalyzeJobDescription].value, c[AnalyzeCv].value, c[MatchCvToJob].value>>

\* const [cvAnalysisResult, jobAnalysisResult, matchResultData] = await
\* Promise.all([...]): the values of the calls, in the order of the array.
PromiseAllValues(c) ==
    <<c[AnalyzeCv].value, c[AnalyzeJobDescription].value, c[MatchCvToJob].value>>

\* The call of action a, settled with the outcome of its flow.
SettledCall(call, a, outcome) ==
    LET r == ActionResult(a, outcome) IN
    [call EXCEPT !.status = IF r.ok THEN "fulfilled" ELSE "rejected",
                 !.input = Null,
                 !.flow = Some(outcome),
                 !.value = r.value,
                 !.message = r.message]

\* A call whose promise nothing holds any more: Promise.all has rejected and
\* onSubmitHandler has returned.  Only how it stands is kept.
Unobserved(call) ==
    [call EXCEPT !.input = Null, !.flow = Null, !.value = Null, !.message = Null]

\* A flow settles, its action settles with it, and onSubmitHandler goes on
\* if that settles the Promise.all it awaits: to the three setters when it
\* fulfils, to catch when it rejects; finally in both cases.
ActionSettles ==
    \E a \in Actions :
        /\ calls[a].status = "pending"
        /\ \E outcome \in FlowOutcomes(a) :
            LET c == [calls EXCEPT ![a] = SettledCall(@, a, outcome)] IN
            IF pc = "awaitAll" /\ PromiseAll(c) = "rejected"
            THEN /\ Catch([message |-> c[a].message])
                 /\ isSubmitted' = TRUE
                 /\ calls' = [b \in Actions |-> IF b = a THEN c[b] ELSE Unobserved(c[b])]
                 /\ UNCHANGED <<cvAnalysis, jobAnalysis, matchResult, fileName>>
            ELSE IF pc = "awaitAll" /\ PromiseAll(c) = "fulfilled"
            THEN /\ cvAnalysis' = PromiseAllValues(c)[1]
                 /\ jobAnalysis' = PromiseAllValues(c)[2]
                 /\ matchResult' = PromiseAllValues(c)[3]
                 /\ isLoading' = FALSE
                 /\ pc' = "done"
                 /\ data' = Null
                 /\ cvDataUri' = Null
                 /\ cvTextContent' = Null
                 /\ calls' = c
                 /\ isSubmitted' = TRUE
                 /\ UNCHANGED <<error, fileName>>
            ELSE IF pc = "awaitAll"
            THEN /\ calls' = c
                 /\ UNCHANGED <<uiVars, pc, data, cvDataUri, cvTextContent,
                                isSubmitted>>
            ELSE /\ calls' = [calls EXCEPT ![a] = Unobserved(c[a])]
                 /\ UNCHANGED <<uiVars, pc, data, cvDataUri, cvTextContent,
                                isSubmitted>>
        /\ uncaught' = FALSE
        /\ UNCHANGED <<formValues, formErrors>>

\* handleReset without setError(null).
HandleResetKeepsError ==
    /\ ~isLoading
    /\ formValues' = InitialFormValues
    /\ formErrors' = NoErrors
    /\ isSubmitted' = FALSE
    /\ cvAnalysis' = Null
    /\ jobAnalysis' = Null
    /\ matchResult' = Null
    /\ fileName' = Null
    /\ isLoading' = FALSE
    /\ pc' = "idle"
    /\ uncaught' = FALSE
    /\ UNCHANGED <<error, data, cvDataUri, cvTextContent, calls>>

\* handleReset behind a reset button that is never disabled.
HandleResetNotDisabled ==
    /\ formValues' = InitialFormValues
    /\ formErrors' = NoErrors
    /\ isSubmitted' = FALSE
    /\ cvAnalysis' = Null
    /\ jobAnalysis' = Null
    /\ matchResult' = Null
    /\ error' = Null
    /\ fileName' = Null
    /\ isLoading' = FALSE
    /\ pc' = "idle"
    /\ uncaught' = FALSE
    /\ UNCHANGED <<data, cvDataUri, cvTextContent, calls>>

\* handleReset; the reset button is disabled while isLoading.  reset() of
\* the form clears its values, its errors and isSubmitted.
HandleReset ==
    /\ ~isLoading
    /\ formValues' = InitialFormValues
    /\ formErrors' = NoErrors
    /\ isSubmitted' = FALSE
    /\ cvAnalysis' = Null
    /\ jobAnalysis' = Null
    /\ matchResult' = Null
    /\ error' = Null
    /\ fileName' = Null
    /\ isLoading' = FALSE
    /\ pc' = "idle"
    /\ uncaught' = FALSE
    /\ UNCHANGED <<data, cvDataUri, cvTextContent, calls>>

Next ==
    \/ SetJobDescription
    \/ SetCvFile
    \/ HandleSubmit
    \/ DataUrlLoaded
    \/ DataUrlError
    \/ TextLoaded
    \/ TextError
    \/ ActionSettles
    \/ HandleReset

Spec == Init /\ [][Next]_vars

\* Every read that was started ends, in onload or in onerror, and every
\* action that was called settles.  Nothing obliges the user to act.
Fairness ==
    /\ WF_vars(DataUrlLoaded \/ DataUrlError)
    /\ WF_vars(TextLoaded \/ TextError)
    /\ WF_vars(ActionSettles)

FairSpec == Init /\ [][Next]_vars /\ Fairness

---------------------------------------------------------------------------
(* Properties                                                              *)

Results == <<cvAnalysis, jobAnalysis, matchResult>>
NoResults == <<Null, Null, Null>>

IsRejected(a) == calls[a].status = "rejected"
IsFulfilled(a) == calls[a].status = "fulfilled"
IsPending(a) == calls[a].status = "pending"

\* The file and the job description onSubmitHandler was called with.
SubmittedFile == data[1].cvFile[1]
SubmittedJobDescription == data[1].jobDescription

\* C1: once onSubmitHandler has returned and one or more of the three
\* actions of the submission has rejected, whatever the others did and in
\* whatever order, the page shows the message of a rejected action, holds
\* none of the three results and is not loading.
C1_RejectionEndsInErrorState ==
    (pc = "done" /\ \E a \in Actions : IsRejected(a)) =>
        /\ error # Null
        /\ error[1] # ""
        /\ \E a \in Actions : IsRejected(a) /\ calls[a].message = error
        /\ Results = NoResults
        /\ isLoading = FALSE

\* Only the match has failed and the two analyses have succeeded; the page
\* shows the error and no analysis.
C1_Witness ==
    /\ pc = "done"
    /\ IsRejected(MatchCvToJob)
    /\ IsFulfilled(AnalyzeCv)
    /\ IsFulfilled(AnalyzeJobDescription)
    /\ error # Null
    /\ Results = NoResults

\* The step is a call of handleSubmit: the form values stay, and either the
\* validation throws, or it sets the errors of the form.
IsSubmitStep == HandleSubmit

\* The step starts a run of onSubmitHandler.
HandlerStarts == pc' = "readDataURL" /\ isLoading' = TRUE

\* The step blocks the submission: the handler does not run, no action is
\* called and the page shows what it showed.
SubmissionBlocked == UNCHANGED <<uiVars, runVars>>

\* The FileLists the schema accepts: one file of an allowed type and of at
\* most 5 MB.
GoodFileList(files) ==
    /\ Len(files) = 1
    /\ files[1].size <= 5 * 1024 * 1024
    /\ files[1].type \in {TextPlain, ApplicationPdf, ApplicationMsword, ApplicationDocx}

\* C2: every submit of a job description shorter than 50 characters is
\* blocked with the length message on the job-description field, without
\* running onSubmitHandler or calling an action; a job description of
\* exactly 50 characters, with a good file, is accepted.
C2_ShortJobDescriptionBlocked ==
    [][IsSubmitStep =>
        /\ Len(formValues.jobDescription) < 50 =>
              /\ formErrors'.jobDescription = Some(JobDescriptionTooShort)
              /\ uncaught' = FALSE
              /\ SubmissionBlocked
        /\ (Len(formValues.jobDescription) = 50 /\ GoodFileList(formValues.cvFile)) =>
              HandlerStarts]_vars

\* C3: every submit of a FileList that does not hold exactly one file, or
\* whose file is larger than 5 MB or of a type outside the allowed set, is
\* blocked with a message on the file field, without calling an action; a
\* file of exactly 5 MB of an allowed type is accepted.
C3_BadFileBlocked ==
    [][IsSubmitStep =>
        /\ ~GoodFileList(formValues.cvFile) =>
              /\ formErrors'.cvFile # Null
              /\ uncaught' = FALSE
              /\ SubmissionBlocked
        /\ (GoodFileList(formValues.cvFile) /\ Len(formValues.jobDescription) >= 50) =>
              HandlerStarts]_vars

\* C4: in a submission whose file was read, each of the three actions has
\* been called exactly once and has called its flow exactly once, whether
\* it has settled or not; while a call is in flight its input is the data
\* URL of the file for analyzeCvAction, the submitted job description for
\* analyzeJobDescriptionAction, and the same job description with the text
\* of the file (when the file could be decoded) for matchCvToJobAction.
C4_EachActionCalledOnce ==
    /\ (pc \in {"awaitAll", "done"} /\ \E a \in Actions : calls[a].status # "notCalled") =>
          \A a \in Actions : calls[a].invoked = 1 /\ calls[a].flowCalls = 1
    /\ \A a \in Actions : calls[a].invoked <= 1 /\ calls[a].flowCalls <= 1
    /\ pc = "awaitAll" =>
          /\ IsPending(AnalyzeCv) =>
                calls[AnalyzeCv].input =
                    Some([cvDataUri |-> "data:" \o SubmittedFile.type \o ";base64," \o SubmittedFile.base64])
          /\ IsPending(AnalyzeJobDescription) =>
                calls[AnalyzeJobDescription].input =
                    Some([jobDescription |-> SubmittedJobDescription])
          /\ IsPending(MatchCvToJob) =>
                /\ calls[MatchCvToJob].input[1].jobDescription = SubmittedJobDescription
                /\ calls[MatchCvToJob].input[1].cvContent \in {SubmittedFile.text, TextPlaceholder}
                /\ SubmittedFile.type = TextPlain =>
                      calls[MatchCvToJob].input[1].cvContent = SubmittedFile.text

\* The three actions are in flight for a 50-character job description and a
\* plain-text file, the match with the text of the file.
C4_Witness ==
    /\ pc = "awaitAll"
    /\ \A a \in Actions : IsPending(a) /\ calls[a].invoked = 1
    /\ SubmittedJobDescription = JD50
    /\ SubmittedFile.type = TextPlain
    /\ calls[MatchCvToJob].input[1].cvContent = SubmittedFile.text

\* C5: when all three actions have succeeded, the three results are what
\* the flows of their own actions returned, the error is null and the page
\* is not loading.
C5_SuccessStoresResponses ==
    (pc = "done" /\ \A a \in Actions : IsFulfilled(a)) =>
        /\ calls[AnalyzeCv].flow # Null /\ cvAnalysis = calls[AnalyzeCv].flow[1].value
        /\ calls[AnalyzeJobDescription].flow # Null
        /\ jobAnalysis = calls[AnalyzeJobDescription].flow[1].value
        /\ calls[MatchCvToJob].flow # Null /\ matchResult = calls[MatchCvToJob].flow[1].value
        /\ \A i \in 1..3 : Results[i] # Null
        /\ error = Null
        /\ isLoading = FALSE

\* A submission has succeeded and the page holds the three responses.
C5_Witness ==
    /\ pc = "done"
    /\ \A a \in Actions : IsFulfilled(a)
    /\ cvAnalysis # Null /\ cvAnalysis[1].skills # <<>>
    /\ jobAnalysis # Null
    /\ matchResult # Null /\ matchResult[1].matchScore = 76

\* The operation each action names in its messages.
OperationName(a) ==
    CASE a = AnalyzeCv -> "analyze CV"
      [] a = AnalyzeJobDescription -> "analyze job description"
      [] a = MatchCvToJob -> "match CV to job"

SanitizedMessage(a, original) == "Failed to " \o OperationName(a) \o ": " \o original
UnknownErrorMessage(a) == "Failed to " \o OperationName(a) \o " due to an unknown error."

\* What the flow of a threw, for a call whose flow has thrown.
Thrown(a) == calls[a].flow[1].thrown[1]

\* The value thrown has a message property.
CarriesMessage(t) == t.message # Null

\* An action that has rejected and whose outcome onSubmitHandler received.
RejectedWithCause(a) == IsRejected(a) /\ calls[a].flow # Null

\* C6, as claimed: an action whose flow has failed fails with "Failed to
\* <operation-name>: <original message>" when the value thrown carries a
\* message, and with the unknown-error message exactly when it carries
\* none; it returns no value.
C6_MessageByCarriedMessage ==
    \A a \in Actions :
        RejectedWithCause(a) =>
            /\ CarriesMessage(Thrown(a)) =>
                  calls[a].message = Some(SanitizedMessage(a, Thrown(a).message[1]))
            /\ (calls[a].message = Some(UnknownErrorMessage(a))) <=> ~CarriesMessage(Thrown(a))
            /\ calls[a].value = Null

\* C6, amended: the message is "Failed to <operation-name>: <original
\* message>" exactly when the value thrown is an Error, also one with the
\* empty message, and the unknown-error message exactly when it is not an
\* Error, whether or not it has a message property; no value is returned.
C6_MessageByErrorInstance ==
    \A a \in Actions :
        RejectedWithCause(a) =>
            /\ calls[a].flow[1].ok = FALSE
            /\ Thrown(a).isError =>
                  calls[a].message = Some(SanitizedMessage(a, Thrown(a).message[1]))
            /\ (calls[a].message = Some(UnknownErrorMessage(a))) <=> ~Thrown(a).isError
            /\ calls[a].value = Null

\* The job-description flow threw an object that is no Error and has a
\* message, and the action failed with the unknown-error message.
C6_Witness ==
    /\ RejectedWithCause(AnalyzeJobDescription)
    /\ ~Thrown(AnalyzeJobDescription).isError
    /\ Thrown(AnalyzeJobDescription).message = Some("backend unavailable")
    /\ calls[AnalyzeJobDescription].message =
           Some("Failed to analyze job description due to an unknown error.")

\* The page as it is before the first submit.
InitialPage ==
    /\ cvAnalysis = Null
    /\ jobAnalysis = Null
    /\ matchResult = Null
    /\ error = Null
    /\ fileName = Null
    /\ isLoading = FALSE
    /\ formValues = [jobDescription |-> "", cvFile |-> <<>>]
    /\ formErrors = [jobDescription |-> Null, cvFile |-> Null]

\* C7: a reset after a finished submission (the step from done to idle)
\* leaves the page as it was before the first submit: no result, no error,
\* no file name, not loading, the fields and their errors cleared.
C7_ResetRestoresInitialPage ==
    [][(pc = "done" /\ pc' = "idle") => InitialPage']_vars

\* The page has been reset after a submission whose three actions had
\* succeeded, and is as before the first submit.
C7_Witness ==
    /\ pc = "idle"
    /\ \A a \in Actions : IsFulfilled(a)
    /\ InitialPage

\* The colour the fixed thresholds give a score.
ColorOfScore(score) ==
    IF score > 75 THEN "green" ELSE IF score >= 51 THEN "orange" ELSE "red"

\* C8: the match response the page holds has a score in 0..100 and the
\* colour the thresholds give that score: green above 75, orange from 51 to
\* 75, red up to 50.
C8_ColorAgreesWithScore ==
    matchResult # Null =>
        /\ matchResult[1].matchScore \in 0..100
        /\ matchResult[1].colorCode = ColorOfScore(matchResult[1].matchScore)

\* C9, as claimed: while one of the three actions of the submission is in
\* flight the page is loading and neither the error nor a result is set.
C9_WaitsForAllToSettle ==
    (\E a \in Actions : IsPending(a)) =>
        /\ isLoading = TRUE
        /\ error = Null
        /\ Results = NoResults

\* C9, amended: while one of the three actions is in flight no result is
\* set, and the page has stopped loading or shows an error only if another
\* of the three has rejected: the join ends at the first rejection.
C9_WaitsUntilAllFulfilOrOneRejects ==
    (\E a \in Actions : IsPending(a)) =>
        /\ Results = NoResults
        /\ (isLoading = FALSE \/ error # Null) => \E b \in Actions : IsRejected(b)

\* An action has rejected and the page shows its error and has stopped
\* loading while the two others are still in flight.
C9_Witness ==
    /\ pc = "done"
    /\ IsRejected(AnalyzeCv)
    /\ IsPending(AnalyzeJobDescription)
    /\ IsPending(MatchCvToJob)
    /\ isLoading = FALSE
    /\ error # Null

\* The four states of the page.
PageIdle == isLoading = FALSE /\ error = Null /\ Results = NoResults
PageSubmitting == isLoading = TRUE
PageSuccess ==
    isLoading = FALSE /\ error = Null /\ \A i \in 1..3 : Results[i] # Null
PageError == isLoading = FALSE /\ error # Null /\ Results = NoResults

\* C10: the page is always in exactly one of idle, submitting, success and
\* error: while loading there is no error and no result, with an error
\* there is no result, and the results are all null or all set.
C10_PageStates ==
    /\ Cardinality({i \in 1..4 :
           <<PageIdle, PageSubmitting, PageSuccess, PageError>>[i]}) = 1
    /\ isLoading = TRUE => (error = Null /\ Results = NoResults)
    /\ error # Null => Results = NoResults
    /\ Results = NoResults \/ \A i \in 1..3 : Results[i] # Null

\* The page shows the results of a submission that has succeeded, and the
\* length message of a later submit that was blocked.
C10_Witness ==
    /\ PageSuccess
    /\ pc = "done"
    /\ formErrors.jobDescription = Some(JobDescriptionTooShort)

----------------------------------------------------------------------------
\* The handler is reading the submitted file.
ReadingFile == pc \in {"readDataURL", "readText"}

\* The step leaves the reads with the placeholder as the text of the CV: the
\* read as text failed and the inner catch took over.
PlaceholderTaken ==
    /\ pc = "readText"
    /\ pc' = "awaitAll"
    /\ cvTextContent' = Some(TextPlaceholder)

\* The step ends the run while the file was still being read.
ReadAborts == ReadingFile /\ pc' = "done"

\* C11: a failed read as text of a file that is not text/plain does not end
\* the submission: the three actions are called, matchCvToJobAction with the
\* placeholder as cvContent.  A failed read of the data URL, or a failed read
\* as text of a text/plain file, ends the submission in the error state with
\* a message that is not empty, and no action is called.
C11_ReadFailures ==
    [][
        /\ PlaceholderTaken =>
            /\ SubmittedFile.type # TextPlain
            /\ isLoading' /\ error' = Null
            /\ \A a \in Actions :
                calls'[a].status = "pending" /\ calls'[a].invoked = 1
            /\ calls'[MatchCvToJob].input =
                Some([jobDescription |-> SubmittedJobDescription,
                      cvContent |-> TextPlaceholder])
            /\ calls'[AnalyzeCv].input = Some([cvDataUri |-> cvDataUri[1]])
            /\ calls'[AnalyzeJobDescription].input =
                Some([jobDescription |-> SubmittedJobDescription])
        /\ ReadAborts =>
            /\ pc = "readText" => SubmittedFile.type = TextPlain
            /\ ~isLoading'
            /\ error' # Null /\ error'[1] # ""
            /\ <<cvAnalysis', jobAnalysis', matchResult'>> = NoResults
            /\ \A a \in Actions :
                calls'[a].status = "notCalled" /\ calls'[a].invoked = 0
    ]_vars

\* The three calls are pending, made with the placeholder for a PDF whose
\* read as text failed.
C11_Witness ==
    /\ pc = "awaitAll"
    /\ SubmittedFile.type = ApplicationPdf
    /\ cvTextContent = Some(TextPlaceholder)
    /\ \A a \in Actions : IsPending(a)
    /\ calls[MatchCvToJob].input[1].cvContent = TextPlaceholder

----------------------------------------------------------------------------
\* The run has gone through its three setters: the three calls have
\* fulfilled, the page holds what they returned and no error.
EndedInSuccess ==
    /\ isLoading = FALSE /\ error = Null
    /\ \A a \in Actions : IsFulfilled(a)
    /\ Results = <<calls[AnalyzeCv].value, calls[AnalyzeJobDescription].value,
                   calls[MatchCvToJob].value>>

\* The run has gone through its catch: the page holds an error, no result.
EndedInError == isLoading = FALSE /\ error # Null /\ Results = NoResults

\* C12: provided that every read and every action that was started settles,
\* a submission that has set isLoading clears it again, with the page
\* holding either the three responses and no error (success) or the error
\* and no response; and isLoading is never set while one of the three calls
\* has rejected or all three have fulfilled.
C12_SubmissionEnds ==
    /\ []<>(~PageSubmitting)
    /\ [][(PageSubmitting /\ ~PageSubmitting') => (EndedInSuccess' \/ EndedInError')]_vars
    /\ [](PageSubmitting =>
            /\ \A a \in Actions : ~IsRejected(a)
            /\ \E a \in Actions : ~IsFulfilled(a))

\* A submission has ended in the error state on the rejection of one call,
\* the last of the three to settle.
C12_Witness ==
    /\ PageError /\ pc = "done"
    /\ IsRejected(AnalyzeJobDescription)
    /\ IsFulfilled(AnalyzeCv) /\ IsFulfilled(MatchCvToJob)

----------------------------------------------------------------------------
\* A run of onSubmitHandler is between its first setter and its finally.
InFlight == pc \in {"readDataURL", "readText", "awaitAll"}

\* How a run of onSubmitHandler moves on: forward, never back to its start
\* and never to the page after a reset.
RunOrder ==
    {<<"readDataURL", "readDataURL">>, <<"readDataURL", "readText">>,
     <<"readDataURL", "done">>,
     <<"readText", "readText">>, <<"readText", "awaitAll">>,
     <<"readText", "done">>,
     <<"awaitAll", "awaitAll">>, <<"awaitAll", "done">>}

\* The step ends the run in flight.
RunEnds == isLoading /\ ~isLoading'

\* The outcome on the page after the step is that of the run which the
\* step ends: the values of its three calls, or the message of its call
\* that rejected, or the default message when a read of its file failed.
OutcomeOfRunInFlight ==
    \/ /\ pc = "awaitAll"
       /\ error' = Null
       /\ \A a \in Actions : calls'[a].status = "fulfilled"
       /\ <<cvAnalysis', jobAnalysis', matchResult'>> =
            <<calls'[AnalyzeCv].value, calls'[AnalyzeJobDescription].value,
              calls'[MatchCvToJob].value>>
    \/ /\ pc = "awaitAll"
       /\ <<cvAnalysis', jobAnalysis', matchResult'>> = NoResults
       /\ \E a \in Actions :
            /\ calls[a].status = "pending"
            /\ calls'[a].status = "rejected"
            /\ error' = calls'[a].message
    \/ /\ ReadingFile
       /\ <<cvAnalysis', jobAnalysis', matchResult'>> = NoResults
       /\ error' = Some(UnexpectedError)

\* C13: isLoading is set exactly while a run of onSubmitHandler is in
\* flight; while it is set no step starts another run or resets the page,
\* and the values submitted stay those of the run; so the outcome stored
\* when isLoading is cleared is that of the most recent submission.
C13_OneSubmissionAtATime ==
    [][
        /\ isLoading <=> InFlight
        /\ isLoading =>
            /\ <<pc, pc'>> \in RunOrder
            /\ pc' # "done" => (isLoading' /\ data' = data)
        /\ RunEnds => (pc' = "done" /\ OutcomeOfRunInFlight)
    ]_vars

\* A run is in flight, one of its calls has fulfilled, and the form holds
\* another valid file by now: a second submission, or a reset, is one click
\* away, behind a disabled button.
C13_Witness ==
    /\ isLoading /\ pc = "awaitAll"
    /\ \E a \in Actions : IsFulfilled(a)
    /\ formValues.cvFile # data[1].cvFile
    /\ ~formSchema(formValues).threw
    /\ formSchema(formValues).errors = NoErrors

====
